---- MODULE Spec2Model ----
(***************************************************************************)
(* Model of src/feature/request/RequestHandler.py: the RequestHandler verb *)
(* primitives (__get__, __post__, __delete__), its configuration setters   *)
(* and the RequestDataBase endpoint bindings built on them.                *)
(*                                                                         *)
(* Python values are tagged records; the tag field t tells the type.       *)
(* An endpoint template is the parsed form of the Python format string: a  *)
(* sequence of literal parts and named replacement fields.                 *)
(***************************************************************************)
EXTENDS Integers, Sequences, FiniteSets, TLC

VARIABLES base_url, headers, timeout, ctorHeaders, setLog, pc, last

vars == <<base_url, headers, timeout, ctorHeaders, setLog, pc, last>>

-----------------------------------------------------------------------------
(* Bounds *)

MaxSets == 2

-----------------------------------------------------------------------------
(* Python values *)

None == [t |-> "None"]
PyStr(s) == [t |-> "str", s |-> s]
PyInt(n) == [t |-> "int", n |-> n]
PyDict(d) == [t |-> "dict", d |-> d]
PyList(l) == [t |-> "list", l |-> l]
PyTuple(a, b) == [t |-> "tuple", a |-> a, b |-> b]
PyModel(cls, f) == [t |-> "model", cls |-> cls, f |-> f]
NoReturn == [t |-> "NoReturn"]

IsNone(v) == v.t = "None"

\* str(v), as str.format renders a field without a format spec
Str(v) == IF v.t = "str" THEN v.s ELSE ToString(v.n)

\* BaseModel.model_dump() / BaseModel.dict(): the mapping of the fields
model_dump(m) == m.f

\* class used as response_model, or None
NoModel == "None"

-----------------------------------------------------------------------------
(* Endpoint templates and str.format *)

Lit(s) == [k |-> "lit", s |-> s]
Field(n) == [k |-> "field", name |-> n]

EP_SEND_NEWS == <<Lit("send-news/get-news/by/hours")>>
EP_QUEUE == <<Lit("queue/get-news/by/hours")>>
EP_DETAIL_BY_SEED == <<Lit("all-news/detail-by-seed/"), Field("seed")>>
EP_DELETE_NEWS == <<Lit("queue/delete-news/"), Field("channel"), Lit("/"), Field("id_post")>>

\* the template as the string it is when it is not formatted
RECURSIVE RawText(_)
RawText(tmpl) ==
    IF tmpl = <<>> THEN ""
    ELSE LET p == Head(tmpl)
         IN  (IF p.k = "lit" THEN p.s ELSE "{" \o p.name \o "}") \o RawText(Tail(tmpl))

FieldNames(tmpl) == {tmpl[i].name : i \in {j \in DOMAIN tmpl : tmpl[j].k = "field"}}

\* endpoint.format(**kwargs) raises KeyError when a field has no keyword
FormatRaises(tmpl, kwargs) == ~(FieldNames(tmpl) \subseteq DOMAIN kwargs)

RECURSIVE Format(_, _)
Format(tmpl, kwargs) ==
    IF tmpl = <<>> THEN ""
    ELSE LET p == Head(tmpl)
         IN  (IF p.k = "lit" THEN p.s ELSE Str(kwargs[p.name])) \o Format(Tail(tmpl), kwargs)

\* url = f"{self.base_url}/{endpoint}"
MakeUrl(base, endpoint) == base \o "/" \o endpoint

-----------------------------------------------------------------------------
(* Schemas (src/feature/request/schemas.py) *)

DetailBySeed(seed) == PyModel("DetailBySeed", [seed |-> seed])
DeletePostByQueue(channel, id_post) ==
    PyModel("DeletePostByQueue", [channel |-> channel, id_post |-> id_post])

\* the fields a response model declares, all of them required
RequiredFields(model) ==
    CASE model = "DetailBySeedResponse" -> {"seed", "title"}
      [] model = "PostQueueList" -> {"news"}
      [] model = "PostSendNewsList" -> {"news"}

\* pydantic raises ValidationError unless the input is a mapping that has
\* every required field
ValidationFails(model, data) ==
    ~(data.t = "dict" /\ RequiredFields(model) \subseteq DOMAIN data.d)

\* response_model.parse_obj(data) / response_model.model_validate(data)
model_validate(model, data) ==
    PyModel(model, [n \in RequiredFields(model) |-> data.d[n]])

-----------------------------------------------------------------------------
(* The transport (requests) *)

BODY_DETAIL == "{\"seed\":\"seed123\",\"title\":\"X\"}"
BODY_PARTIAL == "{\"seed\":\"seed123\"}"
BODY_NEWS == "{\"news\":[]}"
BODY_TEXT == "Not Found"

Bodies == {BODY_DETAIL, BODY_PARTIAL, BODY_NEWS, BODY_TEXT}
Statuses == {101, 200, 304, 404, 500}
ContentTypes == {"application/json", "application/json; charset=utf-8", "text/html"}

\* what one call of requests.get / post / delete ends in
TransportOutcomes ==
    {[k |-> "response", status |-> s, ctype |-> c, body |-> b] :
        s \in Statuses, c \in ContentTypes, b \in Bodies}
    \cup {[k |-> "error", exc |-> e] : e \in {"ConnectionError", "Timeout"}}

\* the subclasses of requests.exceptions.RequestException that can occur
RequestExceptions == {"ConnectionError", "Timeout", "HTTPError", "JSONDecodeError"}

\* variant: only client errors raise
raise_for_status_4xx(status) == status >= 400 /\ status < 500

\* response.raise_for_status() raises HTTPError for 4xx and 5xx
raise_for_status(status) == status >= 400 /\ status < 600

\* response.json()
JsonLoads(text) ==
    CASE text = BODY_DETAIL ->
            [ok |-> TRUE, v |-> PyDict([seed |-> PyStr("seed123"), title |-> PyStr("X")])]
      [] text = BODY_PARTIAL ->
            [ok |-> TRUE, v |-> PyDict([seed |-> PyStr("seed123")])]
      [] text = BODY_NEWS ->
            [ok |-> TRUE, v |-> PyDict([news |-> PyList(<<>>)])]
      [] OTHER -> [ok |-> FALSE]

\* response.headers.get('Content-Type') == 'application/json'
IsJsonContentType(ctype) == ctype = "application/json"

\* response.raise_for_status()
\* data = response.json() if <json content type> else response.text
ReadResponse(tr) ==
    IF tr.k = "error" THEN [exc |-> tr.exc]
    ELSE IF raise_for_status(tr.status) THEN [exc |-> "HTTPError"]
    ELSE IF IsJsonContentType(tr.ctype)
         THEN LET j == JsonLoads(tr.body)
              IN  IF j.ok THEN [exc |-> "none", data |-> j.v]
                  ELSE [exc |-> "JSONDecodeError"]
         ELSE [exc |-> "none", data |-> PyStr(tr.body)]

Request(verb, url, hdrs, params, json, tmo) ==
    [verb |-> verb, url |-> url, headers |-> hdrs, params |-> params,
     json |-> json, timeout |-> tmo]

-----------------------------------------------------------------------------
(* RequestHandler *)

\* how a call ends: the value returned or the exception raised, and the
\* transport requests it issued
Returned(v, reqs) == [raised |-> "none", ret |-> v, reqs |-> reqs]
Raised(e, reqs) == [raised |-> e, ret |-> NoReturn, reqs |-> reqs]

\* the except clauses of each verb
CaughtByGet == RequestExceptions \cup {"ValidationError"}
CaughtByPost == RequestExceptions \cup {"ValidationError"}
CaughtByDelete == RequestExceptions

\* variant: a failure keeps a status component
GetSentinel_status == PyTuple(PyInt(0), None)

GetSentinel == PyTuple(None, None)
PostSentinel == None
DeleteSentinel == None

\* endpoint = endpoint.format(**path_params.model_dump()) if path_params
ResolveRaises(endpoint, path_params) ==
    ~IsNone(path_params) /\ FormatRaises(endpoint, model_dump(path_params))

\* variant: the template is never formatted
Resolve_raw(endpoint, path_params) == RawText(endpoint)

Resolve(endpoint, path_params) ==
    IF ~IsNone(path_params) THEN Format(endpoint, model_dump(path_params))
    ELSE RawText(endpoint)

ToDict(model) == IF ~IsNone(model) THEN PyDict(model_dump(model)) ELSE None

\* variant: a body that does not validate is handed on as it is
Validated_unchecked(response_model, r) ==
    IF r.exc # "none" THEN r
    ELSE IF response_model = NoModel THEN r
    ELSE IF ValidationFails(response_model, r.data) THEN r
    ELSE [exc |-> "none", data |-> model_validate(response_model, r.data)]

\* the value of the try body after the response was read, or the exception
Validated(response_model, r) ==
    IF r.exc # "none" THEN r
    ELSE IF response_model = NoModel THEN r
    ELSE IF ValidationFails(response_model, r.data) THEN [exc |-> "ValidationError"]
    ELSE [exc |-> "none", data |-> model_validate(response_model, r.data)]

__get__(self, endpoint, path_params, query_params, response_model, tr) ==
    IF ResolveRaises(endpoint, path_params) THEN Raised("KeyError", <<>>)
    ELSE
    LET url == MakeUrl(self.base_url, Resolve(endpoint, path_params))
        req == Request("GET", url, self.headers, ToDict(query_params), None, self.timeout)
        r == Validated(response_model, ReadResponse(tr))
    IN  IF r.exc = "none" THEN Returned(PyTuple(PyInt(tr.status), r.data), <<req>>)
        ELSE IF r.exc \in CaughtByGet THEN Returned(GetSentinel, <<req>>)
        ELSE Raised(r.exc, <<req>>)

__post__(self, endpoint, data, response_model, tr) ==
    LET url == MakeUrl(self.base_url, RawText(endpoint))
        req == Request("POST", url, self.headers, None, ToDict(data), self.timeout)
        r == Validated(response_model, ReadResponse(tr))
    IN  IF r.exc = "none" THEN Returned(r.data, <<req>>)
        ELSE IF r.exc \in CaughtByPost THEN Returned(PostSentinel, <<req>>)
        ELSE Raised(r.exc, <<req>>)

\* variant: a failed attempt is tried once more
__delete__retry(self, endpoint, path_params, query_params, tr) ==
    IF ResolveRaises(endpoint, path_params) THEN Raised("KeyError", <<>>)
    ELSE
    LET url == MakeUrl(self.base_url, Resolve(endpoint, path_params))
        req == Request("DELETE", url, self.headers, ToDict(query_params), None, self.timeout)
        r == ReadResponse(tr)
    IN  IF r.exc = "none" THEN Returned(r.data, <<req>>)
        ELSE IF r.exc \in CaughtByDelete THEN Returned(DeleteSentinel, <<req, req>>)
        ELSE Raised(r.exc, <<req, req>>)

__delete__(self, endpoint, path_params, query_params, tr) ==
    IF ResolveRaises(endpoint, path_params) THEN Raised("KeyError", <<>>)
    ELSE
    LET url == MakeUrl(self.base_url, Resolve(endpoint, path_params))
        req == Request("DELETE", url, self.headers, ToDict(query_params), None, self.timeout)
        r == ReadResponse(tr)
    IN  IF r.exc = "none" THEN Returned(r.data, <<req>>)
        ELSE IF r.exc \in CaughtByDelete THEN Returned(DeleteSentinel, <<req>>)
        ELSE Raised(r.exc, <<req>>)

\* variant: the new mapping replaces the old one
update_replace(old, new) == new

\* self.headers.update(headers)
update(old, new) ==
    [k \in DOMAIN old \cup DOMAIN new |-> IF k \in DOMAIN new THEN new[k] ELSE old[k]]

-----------------------------------------------------------------------------
(* RequestDataBase *)

__get_last_send_news__(self, tr) ==
    __get__(self, EP_SEND_NEWS, None, None, "PostSendNewsList", tr)

__get_last_queue__(self, tr) ==
    __get__(self, EP_QUEUE, None, None, "PostQueueList", tr)

__get_detail_by_seed__(self, seed, tr) ==
    __get__(self, EP_DETAIL_BY_SEED, DetailBySeed(seed), None, "DetailBySeedResponse", tr)

\* variant: result[0]
Item0(out) == IF out.raised # "none" THEN out ELSE [out EXCEPT !.ret = out.ret.a]

\* result[1]
Item1(out) == IF out.raised # "none" THEN out ELSE [out EXCEPT !.ret = out.ret.b]

get_detail_by_seed(self, seed, tr) == Item1(__get_detail_by_seed__(self, seed, tr))
get_last_news_queue(self, tr) == Item1(__get_last_queue__(self, tr))
get_last_news_send(self, tr) == Item1(__get_last_send_news__(self, tr))

\* variant: the two path parameters change places
delete_news_by_queue_swapped(self, channel, id_post, tr) ==
    __delete__(self, EP_DELETE_NEWS, DeletePostByQueue(id_post, channel), None, tr)

delete_news_by_queue(self, channel, id_post, tr) ==
    __delete__(self, EP_DELETE_NEWS, DeletePostByQueue(channel, id_post), None, tr)

-----------------------------------------------------------------------------
(* Inputs *)

DEFAULT_BASE_URL == "http://0.0.0.0:8000/"
DEFAULT_TIMEOUT == 10

BaseUrls == {DEFAULT_BASE_URL}
Timeouts == {5}

EmptyDict == [k \in {} |-> ""]
HeaderDicts ==
    {("X-Token" :> "abc"),
     ("X-Token" :> "xyz") @@ ("Accept" :> "text/html")}
CtorHeaderArgs == {None, PyDict(("Accept" :> "application/json"))}

Seeds == {"seed123", "a/b"}
Channels == {"tech"}
PostIds == {7, 42}

Endpoints == {EP_QUEUE, EP_DETAIL_BY_SEED}
GetPathParams == {None, DeletePostByQueue(PyStr("tech"), PyInt(7))}
DeletePathParams == {None, DetailBySeed(PyStr("seed123"))}
QueryObjects == {None, PyModel("Hours", [hours |-> PyInt(24)])}
BodyObjects == {None, PyModel("Post", [channel |-> PyStr("tech"), id_post |-> PyInt(7)])}
ResponseModels == {NoModel, "DetailBySeedResponse"}

-----------------------------------------------------------------------------
(* The instance and its caller *)

NoCall == [op |-> "none"]

\* RequestHandler.__init__(base_url, headers, timeout)
Init ==
    /\ base_url \in BaseUrls
    /\ \E h \in CtorHeaderArgs :
          /\ headers = (IF ~IsNone(h) THEN h.d ELSE EmptyDict)
          /\ ctorHeaders = headers
    /\ timeout = DEFAULT_TIMEOUT
    /\ setLog = <<>>
    /\ pc = "idle"
    /\ last = NoCall

Self == [base_url |-> base_url, headers |-> headers, timeout |-> timeout]

\* a method call runs to its end: the caller holds what it got, the transport
\* outcome it met and, for a method built on __get__, what __get__ gave it
Call(op, args, tr, out, inner) ==
    /\ pc = "idle"
    /\ pc' = "returned"
    /\ last' = [op |-> op, args |-> args, out |-> out, inner |-> inner,
                tr |-> (IF out.reqs = <<>> THEN [k |-> "unused"] ELSE tr)]
    /\ UNCHANGED <<base_url, headers, timeout, ctorHeaders, setLog>>

Get ==
    \E e \in Endpoints, pp \in GetPathParams, q \in QueryObjects,
       m \in ResponseModels, tr \in TransportOutcomes :
        LET out == __get__(Self, e, pp, q, m, tr)
        IN  Call("__get__", [endpoint |-> e, path_params |-> pp, query_params |-> q,
                             response_model |-> m], tr, out, out)

Post ==
    \E d \in BodyObjects, m \in ResponseModels, tr \in TransportOutcomes :
        LET out == __post__(Self, EP_QUEUE, d, m, tr)
        IN  Call("__post__", [endpoint |-> EP_QUEUE, data |-> d, response_model |-> m],
                 tr, out, out)

Delete ==
    \E pp \in DeletePathParams, q \in QueryObjects, tr \in TransportOutcomes :
        LET out == __delete__(Self, EP_DELETE_NEWS, pp, q, tr)
        IN  Call("__delete__", [endpoint |-> EP_DELETE_NEWS, path_params |-> pp, query_params |-> q],
                 tr, out, out)

SetHeaders ==
    \E h \in HeaderDicts :
        /\ pc = "idle"
        /\ Len(setLog) < MaxSets
        /\ headers' = update(headers, h)
        /\ setLog' = Append(setLog, h)
        /\ UNCHANGED <<base_url, timeout, ctorHeaders, pc, last>>

SetTimeout ==
    \E t \in Timeouts :
        /\ pc = "idle"
        /\ timeout' = t
        /\ UNCHANGED <<base_url, headers, ctorHeaders, setLog, pc, last>>

GetLastSendNews ==
    \E tr \in TransportOutcomes :
        LET out == __get_last_send_news__(Self, tr)
        IN  Call("__get_last_send_news__", <<>>, tr, out, out)

GetLastQueue ==
    \E tr \in TransportOutcomes :
        LET out == __get_last_queue__(Self, tr)
        IN  Call("__get_last_queue__", <<>>, tr, out, out)

GetDetailBySeedPair ==
    \E seed \in Seeds, tr \in TransportOutcomes :
        LET out == __get_detail_by_seed__(Self, PyStr(seed), tr)
        IN  Call("__get_detail_by_seed__", [seed |-> seed], tr, out, out)

GetDetailBySeed ==
    \E seed \in Seeds, tr \in TransportOutcomes :
        Call("get_detail_by_seed", [seed |-> seed], tr,
             get_detail_by_seed(Self, PyStr(seed), tr),
             __get_detail_by_seed__(Self, PyStr(seed), tr))

GetLastNewsQueue ==
    \E tr \in TransportOutcomes :
        Call("get_last_news_queue", <<>>, tr,
             get_last_news_queue(Self, tr), __get_last_queue__(Self, tr))

GetLastNewsSend ==
    \E tr \in TransportOutcomes :
        Call("get_last_news_send", <<>>, tr,
             get_last_news_send(Self, tr), __get_last_send_news__(Self, tr))

DeleteNewsByQueue ==
    \E c \in Channels, i \in PostIds, tr \in TransportOutcomes :
        LET out == delete_news_by_queue(Self, PyStr(c), PyInt(i), tr)
        IN  Call("delete_news_by_queue", [channel |-> c, id_post |-> i], tr, out, out)

\* the return (or the raise) hands control back to the caller: the call's
\* locals (url, response, data) are gone, and the instance is ready for the
\* next method call
Continue ==
    /\ pc = "returned"
    /\ pc' = "idle"
    /\ last' = NoCall
    /\ UNCHANGED <<base_url, headers, timeout, ctorHeaders, setLog>>

Next ==
    \/ Get
    \/ Post
    \/ Delete
    \/ SetHeaders
    \/ SetTimeout
    \/ GetLastSendNews
    \/ GetLastQueue
    \/ GetDetailBySeedPair
    \/ GetDetailBySeed
    \/ GetLastNewsQueue
    \/ GetLastNewsSend
    \/ DeleteNewsByQueue
    \/ Continue

Spec == Init /\ [][Next]_vars

TypeOK ==
    /\ pc \in {"idle", "returned"}
    /\ (pc = "idle") <=> (last = NoCall)
    /\ Len(setLog) <= MaxSets

-----------------------------------------------------------------------------
(* Vocabulary of the properties *)

Verbs == {"__get__", "__post__", "__delete__"}
PairMethods == {"__get_last_send_news__", "__get_last_queue__", "__get_detail_by_seed__"}
PayloadMethods == {"get_detail_by_seed", "get_last_news_queue", "get_last_news_send"}

Done == pc = "returned"
Answered == Done /\ last.tr.k = "response"

\* the null-sentinel of the verb an operation is built on
SentinelOf(op) ==
    IF op \in {"__get__"} \cup PairMethods THEN PyTuple(None, None) ELSE None

ReturnedSentinel == last.out.raised = "none" /\ last.out.ret = SentinelOf(last.op)

\* the payload of a returned value: the second component of a pair
PayloadOf(op, ret) == IF op \in {"__get__"} \cup PairMethods THEN ret.b ELSE ret

\* the response model an operation validates against
ModelOf(c) ==
    CASE c.op \in {"__get__", "__post__"} -> c.args.response_model
      [] c.op \in {"__get_detail_by_seed__", "get_detail_by_seed"} -> "DetailBySeedResponse"
      [] c.op \in {"__get_last_queue__", "get_last_news_queue"} -> "PostQueueList"
      [] c.op \in {"__get_last_send_news__", "get_last_news_send"} -> "PostSendNewsList"
      [] OTHER -> NoModel

\* the media type of the content type is application/json
DeclaresJson(ctype) ==
    ctype \in {"application/json", "application/json; charset=utf-8"}

\* the body is a JSON document whose fields cover the model
Conforms(model, body) ==
    /\ JsonLoads(body).ok
    /\ JsonLoads(body).v.t = "dict"
    /\ RequiredFields(model) \subseteq DOMAIN JsonLoads(body).v.d

\* decimal numeral of a natural number
Digit(d) ==
    CASE d = 0 -> "0" [] d = 1 -> "1" [] d = 2 -> "2" [] d = 3 -> "3" [] d = 4 -> "4"
      [] d = 5 -> "5" [] d = 6 -> "6" [] d = 7 -> "7" [] d = 8 -> "8" [] d = 9 -> "9"

RECURSIVE Decimal(_)
Decimal(n) == IF n < 10 THEN Digit(n) ELSE Decimal(n \div 10) \o Digit(n % 10)

-----------------------------------------------------------------------------
(* C1 *)

C2_NeverRaises == Done => last.out.raised = "none"

(* C3 *)

\* C3: a 2xx response whose parsed body does not conform to the supplied
\* response model makes __get__ return exactly (None, None) and __post__
\* return exactly None.
C3_ValidationFailureGivesSentinel ==
    (/\ Answered
     /\ last.op \in {"__get__", "__post__"}
     /\ last.tr.status \in 200..299
     /\ last.args.response_model # NoModel
     /\ ~Conforms(last.args.response_model, last.tr.body))
        => ReturnedSentinel

C3_Witness ==
    /\ Answered
    /\ last.op = "__get__"
    /\ last.tr.status = 200
    /\ last.tr.ctype = "application/json"
    /\ last.tr.body = BODY_PARTIAL
    /\ last.args.response_model = "DetailBySeedResponse"
    /\ last.out.ret = PyTuple(None, None)

(* C4 *)

\* the set_headers call that wrote key k last, 0 when none did
LastSetter(k, log) ==
    LET setters == {i \in DOMAIN log : k \in DOMAIN log[i]}
    IN  IF setters = {} THEN 0
        ELSE CHOOSE i \in setters : \A j \in setters : j <= i

ExpectedHeaders(ctor, log) ==
    [k \in DOMAIN ctor \cup UNION {DOMAIN log[i] : i \in DOMAIN log} |->
        IF LastSetter(k, log) = 0 THEN ctor[k] ELSE log[LastSetter(k, log)][k]]

\* C4: the headers a verb call hands to the transport are the constructor
\* headers overridden, in call order, by every mapping given to set_headers:
\* each key carries the value of the last call that set it, a key no call
\* set keeps its constructor value, and no key is lost.
C4_HeadersAreMerged ==
    /\ headers = ExpectedHeaders(ctorHeaders, setLog)
    /\ (Done /\ last.out.reqs # <<>>) =>
          \A i \in DOMAIN last.out.reqs :
              last.out.reqs[i].headers = ExpectedHeaders(ctorHeaders, setLog)

C4_Witness ==
    /\ Done
    /\ Len(setLog) = 2
    /\ DOMAIN setLog[2] # DOMAIN setLog[1]
    /\ DOMAIN ctorHeaders # {}
    /\ last.out.reqs # <<>>
    /\ last.out.reqs[1].headers = (("X-Token" :> "abc") @@ ("Accept" :> "text/html"))

(* C5 *)

\* C5: on a 2xx response without response model, a body declared as JSON
\* (whatever the parameters of the content type) is returned parsed, any
\* other body is returned as the raw text; with a response model and a
\* non-JSON content type the call returns the null-sentinel.
C5_JsonContentTypeIsParsed ==
    (Answered /\ last.tr.status \in 200..299 /\ last.out.raised = "none") =>
        /\ (last.op \in Verbs /\ ModelOf(last) = NoModel) =>
              IF DeclaresJson(last.tr.ctype)
              THEN JsonLoads(last.tr.body).ok =>
                      PayloadOf(last.op, last.out.ret) = JsonLoads(last.tr.body).v
              ELSE PayloadOf(last.op, last.out.ret) = PyStr(last.tr.body)
        /\ (ModelOf(last) # NoModel /\ ~DeclaresJson(last.tr.ctype)) =>
              last.out.ret = SentinelOf(last.op)

(* C6 *)

\* the call met a transport error, an error status, an undecodable JSON body
\* or a body that does not validate
GetFailed(c) ==
    \/ c.tr.k = "error"
    \/ c.tr.status \in 400..599
    \/ c.tr.ctype = "application/json" /\ ~JsonLoads(c.tr.body).ok
    \/ /\ ModelOf(c) # NoModel
       /\ ~(c.tr.ctype = "application/json" /\ Conforms(ModelOf(c), c.tr.body))

C7_DetailBySeedRequest ==
    (Done /\ last.op \in {"get_detail_by_seed", "__get_detail_by_seed__"}) =>
        /\ Len(last.out.reqs) = 1
        /\ last.out.reqs[1].verb = "GET"
        /\ last.out.reqs[1].url =
              base_url \o "/" \o "all-news/detail-by-seed/" \o last.args.seed
        /\ IsNone(last.out.reqs[1].params)
        /\ IsNone(last.out.reqs[1].json)

C7_Witness ==
    /\ Done
    /\ last.op = "get_detail_by_seed"
    /\ last.args.seed = "a/b"
    /\ last.out.reqs[1].url = "http://0.0.0.0:8000//all-news/detail-by-seed/a/b"

(* C8 *)

\* C8: delete_news_by_queue(channel, id_post) issues one DELETE to
\* <base_url>/queue/delete-news/<channel>/<id_post> with no query parameters;
\* it returns the body, parsed from JSON or as text and never validated,
\* when the call succeeds, and None on a transport error or error status.
C8_DeleteNewsByQueue ==
    (Done /\ last.op = "delete_news_by_queue") =>
        /\ Len(last.out.reqs) = 1
        /\ last.out.reqs[1].verb = "DELETE"
        /\ last.out.reqs[1].url =
              base_url \o "/" \o "queue/delete-news/" \o last.args.channel
                       \o "/" \o Decimal(last.args.id_post)
        /\ IsNone(last.out.reqs[1].params)
        /\ last.out.raised = "none"
        /\ (last.tr.k = "error" \/ last.tr.status \in 400..599) => IsNone(last.out.ret)
        /\ ~IsNone(last.out.ret) =>
              \/ last.out.ret = PyStr(last.tr.body)
              \/ JsonLoads(last.tr.body).ok /\ last.out.ret = JsonLoads(last.tr.body).v
        /\ (last.tr.k = "response" /\ last.tr.status \in 200..299
                /\ last.tr.ctype = "text/html") => last.out.ret = PyStr(last.tr.body)

C8_Witness ==
    /\ Done
    /\ last.op = "delete_news_by_queue"
    /\ last.args.id_post = 42
    /\ last.out.reqs[1].url = "http://0.0.0.0:8000//queue/delete-news/tech/42"
    /\ last.tr.k = "response"
    /\ last.tr.status = 200
    /\ last.tr.ctype = "application/json"
    /\ last.out.ret = PyDict([news |-> PyList(<<>>)])

(* C9 *)

\* C9: get_detail_by_seed, get_last_news_queue and get_last_news_send return
\* the payload component of the underlying __get__ result, never the status:
\* the validated model instance when that call succeeded and None when it
\* failed, as on a 404 response.
C9_PayloadOnly ==
    (Done /\ last.op \in PayloadMethods) =>
        /\ last.out.raised = last.inner.raised
        /\ last.inner.raised = "none" =>
              /\ last.out.ret = last.inner.ret.b
              /\ last.out.ret.t \in {"None", "model"}
              /\ last.out.ret.t = "model" =>
                    (~IsNone(last.inner.ret.a) /\ last.out.ret.cls = ModelOf(last))
              /\ IsNone(last.inner.ret.a) => IsNone(last.out.ret)
        /\ (last.tr.k = "response" /\ last.tr.status = 404) => IsNone(last.out.ret)

C9_Witness ==
    /\ Done
    /\ last.op = "get_detail_by_seed"
    /\ last.tr.k = "response"
    /\ last.tr.status = 200
    /\ last.out.ret = PyModel("DetailBySeedResponse",
                              [seed |-> PyStr("seed123"), title |-> PyStr("X")])

(* C10 *)

\* C10: a call issues at most one transport request; when the attempt fails
\* no second request follows and the call returns its null-sentinel.
C10_AtMostOneRequest ==
    Done =>
        /\ Len(last.out.reqs) <= 1
        /\ (last.out.reqs # <<>> /\ (last.tr.k = "error" \/ last.tr.status \in 400..599)) =>
              /\ Len(last.out.reqs) = 1
              /\ last.out.raised = "none"
              /\ last.out.ret = (IF last.op \in PayloadMethods THEN None
                                 ELSE SentinelOf(last.op))

C10_Witness ==
    /\ Done
    /\ last.op = "__delete__"
    /\ last.tr.k = "error"
    /\ last.tr.exc = "ConnectionError"
    /\ Len(last.out.reqs) = 1
    /\ IsNone(last.out.ret)

====
